---- MODULE Spec2Model ----
(***************************************************************************)
(* Model of src/main.py (CHIPTONE): the Recorder class, the Synth class    *)
(* and the KEYDOWN handler of the main loop.                               *)
(*                                                                         *)
(* Units.  time.time() is read in milliseconds (now).  Values rounded by   *)
(* round(x, 2) are held in centiseconds.  Frequencies are held in          *)
(* hundredths of a hertz (261.63 Hz is 26163).                             *)
(***************************************************************************)
EXTENDS Integers, Sequences, FiniteSets, TLC

\* ------------------------------------------------------------------ bounds
MaxOps    == 8     \* Recorder calls and clock advances in a run of Spec
MaxCalls  == 2     \* Synth calls in a run of SynthSpec
MaxEvents == 6     \* events and clock advances in a run of the main loop

\* SAMPLE_RATE is 44100 in the source; the model renders at a rate small
\* enough to enumerate every frame of a buffer.
SAMPLE_RATE == 10

\* fixed-point scale of a float sample: the value v stands for v / FP
FP == 1600
\* volume is held in tenths (0.5 is 5), times in tenths of a second
VolDen == 10
DELAY_TIME == 3          \* Synth.delay_time = 0.3
DISTORTION_AMOUNT == 2   \* Synth.distortion_amount = 2.0
BIT_CRUSH_FACTOR == 4    \* Synth.bit_crush_factor = 4
LOW_PASS_ALPHA == 1      \* alpha = 0.1, in tenths
PREVIEW_LEN == 300       \* wave[:300]
INT16_MAX == 32767

\* clock advances, in ms: a part of a rounding bucket, and a whole second
\* (both even, so that no reading is an exact rounding tie)
Steps == {6, 1000}

\* ---------------------------------------------------------------- helpers
Abs(x) == IF x < 0 THEN -x ELSE x

\* round(x, 2) of a value given in ms, result in centiseconds.  Exact ties
\* (ms ending in 5) go to the even neighbour.
Round2(ms) ==
    LET a == Abs(ms)
        q == a \div 10
        r == a % 10
        m == IF r < 5 THEN q
             ELSE IF r > 5 THEN q + 1
             ELSE IF q % 2 = 0 THEN q ELSE q + 1
    IN  IF ms < 0 THEN -m ELSE m

\* datetime.now().strftime("%Y%m%d_%H%M%S"): the reading cut to whole seconds
Strftime(ms) == ms \div 1000

\* f"recording_{timestamp}.json"
FileName(ts) == <<"recording_", ts, ".json">>

\* json.dump of a float held in hundredths: Python's repr, as sign, integer
\* part and the fraction digits without trailing zeros (at least one digit)
DumpFloat(c) ==
    LET a == Abs(c)
        h == a % 100
    IN  [neg  |-> c < 0,
         int  |-> a \div 100,
         frac |-> IF h % 10 = 0 THEN <<h \div 10>> ELSE <<h \div 10, h % 10>>]

\* json.load of such a number
LoadFloat(t) ==
    LET f == t.frac[1] * 10 + (IF Len(t.frac) > 1 THEN t.frac[2] ELSE 0)
        a == t.int * 100 + f
    IN  IF t.neg THEN -a ELSE a

DumpNote(e) == [time |-> DumpFloat(e.time), note |-> e.note,
                freq |-> DumpFloat(e.freq), wave |-> e.wave]

LoadNote(j) == [time |-> LoadFloat(j.time), note |-> j.note,
                freq |-> LoadFloat(j.freq), wave |-> j.wave]

\* json.dump(recording_data, f, indent=2): the text of the file
JsonDump(d) ==
    [timestamp   |-> d.timestamp,
     duration    |-> DumpFloat(d.duration),
     total_notes |-> d.total_notes,
     notes       |-> [i \in 1..Len(d.notes) |-> DumpNote(d.notes[i])]]

\* json.load(f)
JsonLoad(j) ==
    [timestamp   |-> j.timestamp,
     duration    |-> LoadFloat(j.duration),
     total_notes |-> j.total_notes,
     notes       |-> [i \in 1..Len(j.notes) |-> LoadNote(j.notes[i])]]


\* ------------------------------------------------------------------- Synth
\* quotient rounded toward zero: int(x), astype(np.int16) of a float
Trunc(n, d) == IF n >= 0 THEN n \div d ELSE -((-n) \div d)

\* np.round: quotient rounded to the nearest integer, ties to even
RoundHalfEven(n, d) ==
    LET q == n \div d
        r == n % d
    IN  IF 2 * r < d THEN q
        ELSE IF 2 * r > d THEN q + 1
        ELSE IF q % 2 = 0 THEN q ELSE q + 1

\* int16 arithmetic keeps the low 16 bits
Wrap16(x) == ((x + 32768) % 65536) - 32768

Min(a, b) == IF a < b THEN a ELSE b

\* int(SAMPLE_RATE * length), length in tenths of a second
NumSamples(length) == Trunc(SAMPLE_RATE * length, 10)

\* t = np.linspace(0, length, n): n points from 0 to length, the end point
\* included, so the point of index i (from 0) is i * length / (n - 1); each
\* point is held in seconds as the fraction <<num, den>>
Linspace(length, n) ==
    [i \in 1..n |-> <<length * (i - 1), IF n > 1 THEN 10 * (n - 1) ELSE 10>>]

\* self.frequency * t for a time point t, as the fraction num / den
PhaseNum(freq, t) == freq * t[1]
PhaseDen(t) == 100 * t[2]

\* sin(pi * u) for u = n / d in [0, 1], in fixed point (Bhaskara's rational
\* approximation 16u(1-u) / (5 - 4u(1-u)), within 0.002 of the sine)
HalfSine(n, d) ==
    LET r   == n * (d - n)
        den == 5 * d * d - 4 * r
    IN  IF r = 0 THEN 0
        ELSE IF den >= 16 * FP THEN Min(FP, (16 * r) \div (den \div FP))
        ELSE (16 * r * FP) \div den

\* np.sin(2 * np.pi * frequency * t) at phase num / den
Sine(num, den) ==
    LET a == num % den
    IN  IF 2 * a < den THEN HalfSine(2 * a, den) ELSE -HalfSine(2 * a - den, den)

\* np.sign(np.sin(...)).  Where the exact sine is 0 at a phase other than 0
\* the float sine is a rounding residue, and zc (1 or -1) is its sign.
Square(num, den, zc) ==
    LET a == num % den
    IN  IF num = 0 THEN 0
        ELSE IF a = 0 \/ 2 * a = den THEN zc * FP
        ELSE IF 2 * a < den THEN FP ELSE -FP

\* 2 * (t * f - np.floor(0.5 + t * f))
Sawtooth(num, den) ==
    LET fl == (2 * num + den) \div (2 * den)
    IN  Trunc(2 * FP * (num - den * fl), den)

\* 2 * np.abs(2 * (t * f - np.floor(t * f + 0.5))) - 1
Triangle(num, den) == 2 * Abs(Sawtooth(num, den)) - FP

BaseWave(wf, num, den, zc) ==
    IF wf = "sine" THEN Sine(num, den)
    ELSE IF wf = "square" THEN Square(num, den, zc)
    ELSE IF wf = "sawtooth" THEN Sawtooth(num, den)
    ELSE IF wf = "triangle" THEN Triangle(num, den)
    ELSE Sine(num, den)

\* FP * tanh(j / 8) for j = 0..17
TanhTable == <<0, 199, 392, 573, 739, 887, 1016, 1126, 1219, 1295, 1357, 1408,
               1448, 1481, 1506, 1526, 1542, 1555>>

\* np.tanh(wave * distortion_amount), in fixed point: the table, linearly
\* interpolated (within 0.002 of tanh for |wave| <= 1)
Distort(v) ==
    LET y == Abs(v) * DISTORTION_AMOUNT
        h == FP \div 8
        j == y \div h
        r == y % h
        t == TanhTable[j + 1] + ((TanhTable[j + 2] - TanhTable[j + 1]) * r) \div h
    IN  IF v < 0 THEN -t ELSE t

\* levels = 2 ** bit_crush_factor; np.round(wave * levels) / levels
BitCrush(v) ==
    LET levels == 2 ^ BIT_CRUSH_FACTOR
    IN  RoundHalfEven(v * levels, FP) * (FP \div levels)

\* filtered[0] = wave[0]; filtered[i] = alpha*wave[i] + (1-alpha)*filtered[i-1]
RECURSIVE LowPass(_, _)
LowPass(wave, i) ==
    IF i = 1 THEN wave[1]
    ELSE Trunc(LOW_PASS_ALPHA * wave[i] + (10 - LOW_PASS_ALPHA) * LowPass(wave, i - 1), 10)

\* (wave * volume * 32767).astype(np.int16)
ToInt16(v, vol) == Wrap16(Trunc(v * vol * INT16_MAX, FP * VolDen))

\* int(SAMPLE_RATE * delay_time)
DelaySamples == Trunc(SAMPLE_RATE * DELAY_TIME, 10)

\* the rolled copy with its first frames left as np.roll made them
DelayedRotate(buf, ds) ==
    [i \in 1..Len(buf) |-> buf[((i - 1 - ds) % Len(buf)) + 1]]

\* np.roll(stereo_wave, delay_samples, axis=0), then delayed[:delay_samples] = 0
Delayed(buf, ds) ==
    [i \in 1..Len(buf) |->
        IF i <= ds THEN <<0, 0>> ELSE buf[((i - 1 - ds) % Len(buf)) + 1]]

\* stereo_wave + (delayed * 0.5).astype(np.int16): int16 + int16
MixSample(a, b) == Wrap16(a + Trunc(b, 2))

DelayMix(buf) ==
    LET ds == DelaySamples
        dl == Delayed(buf, ds)
    IN  IF Len(buf) > ds
        THEN [i \in 1..Len(buf) |-> <<MixSample(buf[i][1], dl[i][1]),
                                      MixSample(buf[i][2], dl[i][2])>>]
        ELSE buf

\* the float samples after the effects, before the volume (n >= 1)
Effected(freq, wf, fx, length, n, zc) ==
    LET t    == Linspace(length, n)
        base == [i \in 1..n |-> BaseWave(wf, PhaseNum(freq, t[i]), PhaseDen(t[i]), zc)]
        dist == IF fx.distortion THEN [i \in 1..n |-> Distort(base[i])] ELSE base
        crsh == IF fx.bit_crush THEN [i \in 1..n |-> BitCrush(dist[i])] ELSE dist
    IN  IF fx.low_pass THEN [i \in 1..n |-> LowPass(crsh, i)] ELSE crsh

\* wave_16bit (empty when no sample is generated)
Wave16(freq, wf, fx, vol, length, zc) ==
    LET n == NumSamples(length)
        w == Effected(freq, wf, fx, length, n, zc)
    IN  IF n > 0 THEN [i \in 1..n |-> ToInt16(w[i], vol)] ELSE <<>>

\* np.column_stack((wave_16bit, wave_16bit))
Stereo(w16) == [i \in 1..Len(w16) |-> <<w16[i], w16[i]>>]

\* how Synth.generate_sample can end for a length: "None" when it returns a
\* Sound, else the exception raised
\*   n < 0: np.linspace raises ValueError
\*   n = 0 with low_pass: wave[0] of an empty array raises IndexError
\*   n = 0 otherwise: pygame may refuse to make a Sound of an empty array
GenerateOutcomes(fx, length) ==
    LET n == NumSamples(length)
    IN  IF n < 0 THEN {"ValueError"}
        ELSE IF n = 0 /\ fx.low_pass THEN {"IndexError"}
        ELSE IF n = 0 THEN {"None", "pygame.error"}
        ELSE {"None"}

\* self.wave_points = (wave[:300] * 32767).astype(np.int16)
WavePoints(w16) == SubSeq(w16, 1, Min(PREVIEW_LEN, Len(w16)))

\* the array generate_sample hands to pygame.sndarray.make_sound
StereoWave(w16, fx) == IF fx.delay THEN DelayMix(Stereo(w16)) ELSE Stereo(w16)

\* ------------------------------------------------------------------ state
VARIABLES
    frequency,          \* Synth.frequency (hundredths of a hertz)
    waveform,           \* Synth.waveform
    volume,             \* Synth.volume (tenths)
    playing,            \* Synth.playing
    sound,              \* Synth.sound: <<>> for None, else <<the stereo buffer>>
    current_note,       \* Synth.current_note
    wave_points,        \* Synth.wave_points
    effects,            \* Synth.effects
    recording,          \* Recorder.recording
    record_start_time,  \* Recorder.record_start_time (ms)
    recorded_notes,     \* Recorder.recorded_notes
    files,              \* the recordings folder: file name -> file text
    current_waveform,   \* main loop: index into waveforms
    running,            \* main loop: running
    save_message_time,  \* main loop: save_message_time (ms)
    now,                \* time.time() (ms)
    nsteps,             \* calls, events and clock advances so far
    op,                 \* the step taken last: a call or an event with its arguments, or a tick
    result,             \* what it returned, or the exception it raised
    accepted,           \* history: (note, freq, wave) added while recording since the last start
    stopped_at,         \* history: clock reading of the stop that ended the current session, or -1
    saves               \* history: the successful saves, [name, data, rec]

svars == <<frequency, waveform, volume, playing, sound, current_note, wave_points, effects>>
rvars == <<recording, record_start_time, recorded_notes>>
dvars == <<current_waveform, running, save_message_time>>
hvars == <<accepted, stopped_at, saves>>
vars  == <<frequency, waveform, volume, playing, sound, current_note, wave_points,
           effects, recording, record_start_time, recorded_notes, files,
           current_waveform, running, save_message_time, now, nsteps,
           op, result, accepted, stopped_at, saves>>

\* Synth.__init__, for a volume and the effects enabled
SynthInit(vol, fx) ==
    /\ frequency = 44000
    /\ waveform = "sine"
    /\ volume = vol
    /\ playing = FALSE
    /\ sound = <<>>
    /\ current_note = "None"
    /\ wave_points = <<>>
    /\ effects = fx

\* the effects enabled by Synth.__init__
DEFAULT_EFFECTS == [distortion |-> FALSE, delay |-> FALSE,
                    low_pass |-> FALSE, bit_crush |-> TRUE]

EffectChains == [distortion : BOOLEAN, delay : BOOLEAN, low_pass : BOOLEAN, bit_crush : BOOLEAN]

\* Recorder.__init__
RecorderInit ==
    /\ recording = FALSE
    /\ record_start_time = 0
    /\ recorded_notes = <<>>
    /\ files = <<>>

\* the globals of the main loop and the model's bookkeeping
MainInit ==
    /\ current_waveform = 0
    /\ running = TRUE
    /\ save_message_time = 0
    /\ now = 0
    /\ nsteps = 0
    /\ op = <<"init">>
    /\ result = "None"
    /\ accepted = <<>>
    /\ stopped_at = -1
    /\ saves = <<>>

DEFAULT_VOLUME == 5     \* Synth.volume = 0.5

Init == SynthInit(DEFAULT_VOLUME, DEFAULT_EFFECTS) /\ RecorderInit /\ MainInit

\* ------------------------------------------------------------------ clock
Tick(cap) ==
    /\ nsteps < cap
    /\ nsteps' = nsteps + 1
    /\ \E d \in Steps : now' = now + d
    /\ op' = <<"tick">>
    /\ result' = "None"
    /\ UNCHANGED <<svars, rvars, files, dvars, hvars>>

\* --------------------------------------------------------- Synth methods
\* Each method is the relation between the fields before and after the call;
\* ret is what the call returns ("None"), or the exception that leaves it.
play_note(freq, note_name, wf, duration, zc, ret) ==
    /\ ret \in GenerateOutcomes(effects, duration)
    /\ frequency' = freq
    /\ waveform' = wf
    /\ current_note' = note_name
    /\ LET n   == NumSamples(duration)
           w16 == Wave16(freq, wf, effects, volume, duration, zc)
       IN  \* an exception before wave_points is assigned
           IF n < 0 \/ (n = 0 /\ effects.low_pass)
           THEN UNCHANGED <<wave_points, sound, playing>>
           ELSE /\ wave_points' = WavePoints(w16)
                /\ IF ret = "None"
                   THEN /\ sound' = <<StereoWave(w16, effects)>>
                        /\ playing' = TRUE
                   ELSE UNCHANGED <<sound, playing>>
    /\ UNCHANGED <<volume, effects>>

stop ==
    /\ playing' = FALSE
    /\ current_note' = "None"
    /\ UNCHANGED <<frequency, waveform, volume, sound, wave_points, effects>>

\* synth.effects[e] = not synth.effects[e]
toggle_effect(e) ==
    /\ effects' = [effects EXCEPT ![e] = ~effects[e]]
    /\ UNCHANGED <<frequency, waveform, volume, playing, sound, current_note, wave_points>>

\* ------------------------------------------------------- Recorder methods
start_recording_keep ==
    /\ recording' = TRUE
    /\ record_start_time' = now
    /\ accepted' = <<>>
    /\ stopped_at' = -1
    /\ UNCHANGED <<recorded_notes, files, saves>>

start_recording ==
    /\ recording' = TRUE
    /\ record_start_time' = now
    /\ recorded_notes' = <<>>
    /\ accepted' = <<>>
    /\ stopped_at' = -1
    /\ UNCHANGED <<files, saves>>

stop_recording ==
    /\ recording' = FALSE
    /\ stopped_at' = IF recording THEN now ELSE stopped_at
    /\ UNCHANGED <<record_start_time, recorded_notes, files, accepted, saves>>

RecordedEvent(note_name, freq, wave) ==
    [time |-> Round2(now - record_start_time), note |-> note_name,
     freq |-> freq, wave |-> wave]

AddNoteListFront(notes, e) == <<e>> \o notes

\* list.append
AddNoteList(notes, e) == Append(notes, e)

add_note_always(note_name, freq, wave) ==
    /\ recorded_notes' = AddNoteList(recorded_notes, RecordedEvent(note_name, freq, wave))
    /\ accepted' = IF recording
                   THEN Append(accepted, [note |-> note_name, freq |-> freq, wave |-> wave])
                   ELSE accepted
    /\ UNCHANGED <<recording, record_start_time, files, stopped_at, saves>>

add_note(note_name, freq, wave) ==
    /\ IF recording
       THEN /\ recorded_notes' = AddNoteList(recorded_notes, RecordedEvent(note_name, freq, wave))
            /\ accepted' = Append(accepted, [note |-> note_name, freq |-> freq, wave |-> wave])
       ELSE UNCHANGED <<recorded_notes, accepted>>
    /\ UNCHANGED <<recording, record_start_time, files, stopped_at, saves>>

RecordingData ==
    [timestamp   |-> Strftime(now),
     duration    |-> Round2(now - record_start_time),
     total_notes |-> Len(recorded_notes),
     notes       |-> recorded_notes]

\* open(filepath, 'w') followed by json.dump: the file is created or replaced
WriteFile(fs, name, text) ==
    [n \in DOMAIN fs \cup {name} |-> IF n = name THEN text ELSE fs[n]]

save_recording_nocheck(ret) ==
    /\ \/ /\ ret = TRUE
          /\ files' = WriteFile(files, FileName(Strftime(now)), JsonDump(RecordingData))
          /\ saves' = Append(saves, [name |-> FileName(Strftime(now)),
                                     data |-> RecordingData,
                                     rec  |-> recording])
       \/ /\ ret = FALSE
          /\ UNCHANGED <<files, saves>>
    /\ UNCHANGED <<rvars, accepted, stopped_at>>

\* ret is the value returned
save_recording(ret) ==
    /\ IF recorded_notes = <<>>
       THEN /\ ret = FALSE
            /\ UNCHANGED <<files, saves>>
       ELSE \/ /\ ret = TRUE
               /\ files' = WriteFile(files, FileName(Strftime(now)), JsonDump(RecordingData))
               /\ saves' = Append(saves, [name |-> FileName(Strftime(now)),
                                          data |-> RecordingData,
                                          rec  |-> recording])
            \/ \* open() raises: caught, reported as False
               /\ ret = FALSE
               /\ UNCHANGED <<files, saves>>
    /\ UNCHANGED <<rvars, accepted, stopped_at>>

\* the value load_recording returns; the recorder is left as it is
load_recording(filename) ==
    IF filename \in DOMAIN files THEN JsonLoad(files[filename]) ELSE "None"

\* ------------------------------------------- calls of the Recorder interface
\* (note, freq) as in the keys table, with a waveform name
NoteInputs == {<<"C", 26163, "sine">>, <<"D", 29366, "square">>}

\* file names a caller may ask for: those of the seconds the clock can reach
Identifiers == {FileName(sec) : sec \in 0..1}

fvars == <<svars, dvars, now>>

CallStart ==
    /\ nsteps < MaxOps
    /\ nsteps' = nsteps + 1
    /\ start_recording
    /\ op' = <<"start_recording">>
    /\ result' = "None"
    /\ UNCHANGED fvars

CallStop ==
    /\ nsteps < MaxOps
    /\ nsteps' = nsteps + 1
    /\ stop_recording
    /\ op' = <<"stop_recording">>
    /\ result' = "None"
    /\ UNCHANGED fvars

CallAdd ==
    /\ nsteps < MaxOps
    /\ nsteps' = nsteps + 1
    /\ \E k \in NoteInputs :
          /\ add_note(k[1], k[2], k[3])
          /\ op' = <<"add_note", k[1], k[2], k[3]>>
    /\ result' = "None"
    /\ UNCHANGED fvars

CallSave ==
    /\ nsteps < MaxOps
    /\ nsteps' = nsteps + 1
    /\ \E ret \in BOOLEAN :
          /\ save_recording(ret)
          /\ result' = ret
    /\ op' = <<"save_recording">>
    /\ UNCHANGED fvars

CallLoad ==
    /\ nsteps < MaxOps
    /\ nsteps' = nsteps + 1
    /\ \E fn \in Identifiers :
          /\ result' = load_recording(fn)
          /\ op' = <<"load_recording", fn>>
    /\ UNCHANGED <<rvars, files, hvars, fvars>>

\* every call of the Recorder interface, in any order
Next ==
    \/ Tick(MaxOps)
    \/ CallStart
    \/ CallStop
    \/ CallAdd
    \/ CallSave
    \/ CallLoad

Spec == Init /\ [][Next]_vars

\* ---------------------------------------------- calls of the Synth interface
Volumes    == {0, 5, 10}
PlayInputs == {<<44000, "A">>, <<0, "C">>}
WaveInputs == {"sine", "square", "sawtooth", "triangle"}
Durations  == {-5, 0, 2, 10}
Outcomes   == {"None", "ValueError", "IndexError", "pygame.error"}

gvars == <<rvars, files, hvars, dvars, now>>

CallPlay ==
    /\ nsteps < MaxCalls
    /\ nsteps' = nsteps + 1
    /\ \E k \in PlayInputs, wf \in WaveInputs, d \in Durations, ret \in Outcomes :
       \E zc \in IF wf = "square" THEN {-1, 1} ELSE {1} :
          /\ play_note(k[1], k[2], wf, d, zc, ret)
          /\ op' = <<"play_note", k[1], k[2], wf, d, zc>>
          /\ result' = ret
    /\ UNCHANGED gvars

CallSynthStop ==
    /\ nsteps < MaxCalls
    /\ nsteps' = nsteps + 1
    /\ stop
    /\ op' = <<"stop">>
    /\ result' = "None"
    /\ UNCHANGED gvars

\* a synth with any volume and any effects enabled
SynthSpecInit ==
    /\ \E v \in Volumes, fx \in EffectChains : SynthInit(v, fx)
    /\ RecorderInit
    /\ MainInit

SynthNext ==
    \/ CallPlay
    \/ CallSynthStop

SynthSpec == SynthSpecInit /\ [][SynthNext]_vars

\* ------------------------------------------------------------ the main loop
\* keys: key -> (note, freq)
KEYS == [K_a |-> <<"C", 26163>>,  K_w |-> <<"C#", 27718>>, K_s |-> <<"D", 29366>>,
         K_e |-> <<"D#", 31113>>, K_d |-> <<"E", 32963>>,  K_f |-> <<"F", 34923>>,
         K_t |-> <<"F#", 36999>>, K_g |-> <<"G", 39200>>,  K_y |-> <<"G#", 41530>>,
         K_h |-> <<"A", 44000>>,  K_u |-> <<"A#", 46616>>, K_j |-> <<"B", 49388>>,
         K_k |-> <<"C5", 52325>>]

WAVEFORMS == <<"sine", "square", "sawtooth", "triangle">>

\* pedals: key -> effect
PEDALS == [K_1 |-> "distortion", K_2 |-> "delay", K_3 |-> "low_pass", K_4 |-> "bit_crush"]

\* the keys pressed in the model
KeyInputs == {"K_a", "K_s", "K_SPACE", "K_2", "K_r", "K_ESCAPE"}

\* the handler's calls on the synth: a piano key plays, a pedal key toggles
KeySynth(k) ==
    IF k \in DOMAIN KEYS
    THEN \E zc \in IF WAVEFORMS[current_waveform + 1] = "square" THEN {-1, 1} ELSE {1} :
            play_note(KEYS[k][2], KEYS[k][1], WAVEFORMS[current_waveform + 1], 10, zc, "None")
    ELSE IF k \in DOMAIN PEDALS
    THEN toggle_effect(PEDALS[k])
    ELSE UNCHANGED svars

KeyRecorderAnyState(k, saved) ==
    IF k = "K_s" /\ recording
    THEN \* the note is added, then the list is saved
         LET wf    == WAVEFORMS[current_waveform + 1]
             notes == AddNoteList(recorded_notes, RecordedEvent(KEYS[k][1], KEYS[k][2], wf))
             data  == [RecordingData EXCEPT !.notes = notes, !.total_notes = Len(notes)]
         IN  /\ recorded_notes' = notes
             /\ accepted' = Append(accepted, [note |-> KEYS[k][1], freq |-> KEYS[k][2], wave |-> wf])
             /\ files' = WriteFile(files, FileName(Strftime(now)), JsonDump(data))
             /\ saves' = Append(saves, [name |-> FileName(Strftime(now)),
                                        data |-> data, rec |-> recording])
             /\ saved = TRUE
             /\ UNCHANGED <<recording, record_start_time, stopped_at>>
    ELSE IF k \in DOMAIN KEYS /\ recording
    THEN /\ add_note(KEYS[k][1], KEYS[k][2], WAVEFORMS[current_waveform + 1])
         /\ saved = FALSE
    ELSE IF k = "K_r"
    THEN /\ IF recording THEN stop_recording ELSE start_recording
         /\ saved = FALSE
    ELSE IF k = "K_s" /\ recorded_notes # <<>>
    THEN save_recording(saved)
    ELSE /\ UNCHANGED <<rvars, files, hvars>>
         /\ saved = FALSE

\* the handler's calls on the recorder: a piano key is recorded while
\* recording, R starts or stops, S saves when there are notes and the
\* recorder is not recording; saved is what save_recording returned
KeyRecorder(k, saved) ==
    IF k \in DOMAIN KEYS /\ recording
    THEN /\ add_note(KEYS[k][1], KEYS[k][2], WAVEFORMS[current_waveform + 1])
         /\ saved = FALSE
    ELSE IF k = "K_r"
    THEN /\ IF recording THEN stop_recording ELSE start_recording
         /\ saved = FALSE
    ELSE IF k = "K_s" /\ recorded_notes # <<>> /\ ~recording
    THEN save_recording(saved)
    ELSE /\ UNCHANGED <<rvars, files, hvars>>
         /\ saved = FALSE

\* one KEYDOWN event, handled to the end (one event per frame)
KeyDown ==
    /\ running
    /\ nsteps < MaxEvents
    /\ nsteps' = nsteps + 1
    /\ \E k \in KeyInputs, saved \in BOOLEAN :
          /\ KeyRecorder(k, saved)
          /\ KeySynth(k)
          /\ current_waveform' = IF k = "K_SPACE"
                                 THEN (current_waveform + 1) % Len(WAVEFORMS)
                                 ELSE current_waveform
          /\ save_message_time' = IF saved THEN now ELSE save_message_time
          /\ running' = IF k = "K_ESCAPE" THEN FALSE ELSE running
          /\ op' = <<"KEYDOWN", k>>
          /\ result' = "None"
    /\ UNCHANGED now

\* a pygame.QUIT event
Quit ==
    /\ running
    /\ nsteps < MaxEvents
    /\ nsteps' = nsteps + 1
    /\ running' = FALSE
    /\ op' = <<"QUIT">>
    /\ result' = "None"
    /\ UNCHANGED <<svars, rvars, files, hvars, current_waveform, save_message_time, now>>

MainNext ==
    \/ Tick(MaxEvents)
    \/ KeyDown
    \/ Quit

MainSpec == Init /\ [][MainNext]_vars

\* the main loop together with a caller that invokes Recorder.save_recording
\* itself: the method is public and can be called in any recorder state
ProgramNext ==
    \/ MainNext
    \/ CallSave

ProgramSpec == Init /\ [][ProgramNext]_vars

\* ------------------------------------------------------------------ claims
Last(q) == q[Len(q)]

\* the (note, freq, wave) of the events of a list, in list order
Kinds(notes) == [i \in 1..Len(notes) |->
                    [note |-> notes[i].note, freq |-> notes[i].freq, wave |-> notes[i].wave]]

\* C1: add_note made while Idle leaves the event list and every other
\* recorder field unchanged and reports no error; made while Recording it
\* appends exactly one event at the end of the list, carrying the given
\* note, frequency and waveform, and leaves the earlier events unchanged.
C1_AddNote ==
    [][op'[1] = "add_note" =>
         /\ result' = "None"
         /\ UNCHANGED <<recording, record_start_time, files>>
         /\ IF recording
            THEN /\ Len(recorded_notes') = Len(recorded_notes) + 1
                 /\ SubSeq(recorded_notes', 1, Len(recorded_notes)) = recorded_notes
                 /\ Last(recorded_notes').note = op'[2]
                 /\ Last(recorded_notes').freq = op'[3]
                 /\ Last(recorded_notes').wave = op'[4]
            ELSE UNCHANGED recorded_notes]_vars

\* an add made while Recording onto a list that already held an event
C1_Witness ==
    /\ op[1] = "add_note"
    /\ recording
    /\ Len(recorded_notes) = 2
    /\ recorded_notes[1].note # recorded_notes[2].note

\* C2: with a clock that never goes back, the offsets of the events in the
\* list are non-decreasing in list order, and events with equal offsets are
\* all kept, in arrival order.
C2_OffsetsOrdered ==
    /\ \A i \in 1..Len(recorded_notes) - 1 :
          recorded_notes[i].time <= recorded_notes[i + 1].time
    /\ Kinds(recorded_notes) = accepted

\* two different events in the same rounding bucket, after the clock moved
C2_Witness ==
    /\ Len(recorded_notes) = 2
    /\ recorded_notes[1].time = recorded_notes[2].time
    /\ recorded_notes[1].time > 0
    /\ recorded_notes[1].note # recorded_notes[2].note

\* C3: a successful save writes a record whose notes are exactly the events
\* accepted since the most recent start, in call order, with total_notes
\* their count, and leaves the in-memory list unchanged.
C3_SaveWritesAccepted ==
    [][op'[1] = "save_recording" /\ result' = TRUE =>
         LET doc == JsonLoad(files'[Last(saves').name])
         IN  /\ Kinds(doc.notes) = accepted
             /\ doc.notes = recorded_notes
             /\ doc.total_notes = Len(accepted)
             /\ recorded_notes' = recorded_notes]_vars

\* a save made after stop, of two different events
C3_Witness ==
    /\ op[1] = "save_recording"
    /\ result = TRUE
    /\ ~recording
    /\ Len(accepted) = 2
    /\ accepted[1] # accepted[2]

\* C4: save with an empty event list returns failure, writes no file and
\* leaves the recorder state unchanged.
C4_EmptySave ==
    [][op'[1] = "save_recording" /\ recorded_notes = <<>> =>
         /\ result' = FALSE
         /\ files' = files
         /\ UNCHANGED rvars]_vars

\* an empty save made while Recording
C4_Witness ==
    /\ op[1] = "save_recording"
    /\ result = FALSE
    /\ recorded_notes = <<>>
    /\ recording

\* C5: every successful save produces a new record and changes no record
\* written before.
C5_NoOverwrite ==
    [][op'[1] = "save_recording" /\ result' = TRUE =>
         /\ Last(saves').name \notin DOMAIN files
         /\ \A n \in DOMAIN files : files'[n] = files[n]]_vars

\* C6: the duration written by a save of a session that was started and
\* then stopped is the time from start to stop.
C6_DurationFixedAtStop ==
    [][/\ op'[1] = "save_recording" /\ result' = TRUE
       /\ ~recording /\ stopped_at >= 0
       => Last(saves').data.duration = Round2(stopped_at - record_start_time)]_vars

C8_RoundTrip ==
    \A i \in DOMAIN saves :
        op = <<"load_recording", saves[i].name>> => result = saves[i].data

Clip16(x) == IF x > INT16_MAX THEN INT16_MAX ELSE IF x < -INT16_MAX - 1 THEN -INT16_MAX - 1 ELSE x

\* C9: with delay enabled, every output sample is the exact sum of the
\* primary 16-bit sample and the half-gain delayed sample, clipped to
\* [-32768, 32767].
C9_DelayMixSaturates ==
    [][op'[1] = "play_note" /\ result' = "None" /\ effects.delay =>
         LET prim == Stereo(Wave16(op'[2], op'[4], effects, volume, op'[5], op'[6]))
             dl   == Delayed(prim, DelaySamples)
         IN  Len(prim) > DelaySamples =>
                \A i \in 1..Len(prim), c \in 1..2 :
                    sound'[1][i][c] = Clip16(prim[i][c] + Trunc(dl[i][c], 2))]_vars

\* C10: play_note with frequency <= 0 or duration <= 0 fails with
\* InvalidParameter and leaves frequency, waveform, current note, preview
\* slice, playing flag and sound unchanged.
C10_InvalidParameterRejected ==
    [][op'[1] = "play_note" /\ (op'[2] <= 0 \/ op'[5] <= 0) =>
         /\ result' = "InvalidParameter"
         /\ UNCHANGED <<frequency, waveform, current_note, wave_points, playing, sound>>]_vars

\* C11: with delay enabled and a buffer longer than DelaySamples, every
\* output frame before DelaySamples is the original frame unchanged, and
\* every later frame is, in both channels and where the sum fits in 16
\* bits, the original frame plus half of the original frame DelaySamples
\* earlier; a buffer not longer than DelaySamples is returned as it is.
C11_DelayCopyZeroPrefix ==
    [][op'[1] = "play_note" /\ result' = "None" /\ effects.delay =>
         LET orig == Stereo(Wave16(op'[2], op'[4], effects, volume, op'[5], op'[6]))
             out  == sound'[1]
             ds   == DelaySamples
         IN  /\ Len(out) = Len(orig)
             /\ IF Len(orig) > ds
                THEN \A i \in 1..Len(orig), c \in 1..2 :
                        IF i <= ds
                        THEN out[i][c] = orig[i][c]
                        ELSE LET sum == orig[i][c] + Trunc(orig[i - ds][c], 2)
                             IN  sum = Clip16(sum) => out[i][c] = sum
                ELSE out = orig]_vars

\* a note rendered with delay into a buffer longer than DelaySamples, whose
\* last frames and first frames are not silent and in which a frame after
\* DelaySamples carries the echo of an earlier one
C11_Witness ==
    /\ op[1] = "play_note"
    /\ result = "None"
    /\ effects.delay
    /\ sound # <<>>
    /\ Len(sound[1]) > DelaySamples
    /\ LET orig == Wave16(op[2], op[4], effects, volume, op[5], op[6])
           n    == Len(orig)
       IN  /\ orig[n] # 0
           /\ sound[1][2][1] = orig[2] /\ orig[2] # 0
           /\ \E i \in DelaySamples + 1..n :
                 /\ sound[1][i][1] # orig[i]
                 /\ sound[1][i][1] = orig[i] + Trunc(orig[i - DelaySamples], 2)

\* C12: for every duration > 0 the waveform is evaluated on exactly
\* N = round(SAMPLE_RATE * duration) time points, one per frame of the
\* buffer, and the point of index i is i / SAMPLE_RATE, so the last point
\* lies strictly before duration.
C12_TimePoints ==
    [][op'[1] = "play_note" /\ op'[5] > 0 /\ result' = "None" =>
         LET N == RoundHalfEven(SAMPLE_RATE * op'[5], 10)
             t == Linspace(op'[5], NumSamples(op'[5]))
         IN  /\ Len(sound'[1]) = N
             /\ Len(t) = N
             /\ \A i \in 1..Len(t) : t[i][1] * SAMPLE_RATE = (i - 1) * t[i][2]
             /\ t[Len(t)][1] * 10 < op'[5] * t[Len(t)][2]]_vars

====
